---- MODULE Spec2Model ----
(***************************************************************************)
(* The three geofence import scripts of EV-Backend                         *)
(*   scripts/import_missing_geofences.py      ("missing")                  *)
(*   scripts/import_shapefiles_fixed.py       ("fixed")                    *)
(*   scripts/import_school_board_districts.py ("board")                    *)
(* run one after the other by an operator against one shared               *)
(* essentials.geofence_boundaries table and one local cache directory.     *)
(* Every script is single threaded; pc is its position in main().          *)
(***************************************************************************)
EXTENDS Integers, Sequences, FiniteSets, TLC

(***************************************************************************)
(* Bounds of the model.                                                    *)
(***************************************************************************)
MaxRuns == 2      \* script runs started in one behaviour
MaxFaults == 1    \* environment faults (network, database, bad archive)
MaxFeat == 2      \* length of the short GeoJSON feature batches

NULL == "NULL"    \* value of a column the batch does not carry
NOFILE == "absent"

(***************************************************************************)
(* Configuration of the scripts.                                           *)
(***************************************************************************)
\* The archive (file name stem) behind each SHAPEFILES url.
MissingShapefiles ==
  << [key |-> "sldl_in", archive |-> "tl_18_sldl",  state_filter |-> "18"],
     [key |-> "cd_in",   archive |-> "tl_18_cd119", state_filter |-> "18"] >>

FixedShapefiles ==
  << [key |-> "county",    archive |-> "tl_us_county"],
     [key |-> "cousub_in", archive |-> "tl_18_cousub"],
     [key |-> "cousub_ca", archive |-> "tl_06_cousub"],
     [key |-> "unsd_in",   archive |-> "tl_18_unsd"],
     [key |-> "unsd_ca",   archive |-> "tl_06_unsd"],
     [key |-> "sldu_in",   archive |-> "tl_18_sldu"],
     [key |-> "sldu_ca",   archive |-> "tl_06_sldu"],
     [key |-> "sldl_in",   archive |-> "tl_18_sldl"],
     [key |-> "sldl_ca",   archive |-> "tl_06_sldl"],
     [key |-> "place_ca",  archive |-> "tl_06_place"] >>

MONROE_IN == [state |-> "18", county |-> "105"]
LA_CA == [state |-> "06", county |-> "037"]
CountyTargets == << MONROE_IN, LA_CA >>

CensusSource == "census_tiger_2024"
BoardSource == "moco_gis_arcgis_2024"
SubDistrictMtfcc == "G5420"

\* DISTRICT_GEO_IDS: ArcGIS district number -> geo_id.
DISTRICT_GEO_IDS ==
  [d \in {0, 1, 2, 3, 4, 5, 6, 7} |->
     CASE d = 1 -> "180063000001"
       [] d = 2 -> "180063000002"
       [] d = 3 -> "180063000003"
       [] d = 4 -> "180063000004"
       [] d = 5 -> "180063000005"
       [] d = 6 -> "180063000006"
       [] d = 7 -> "180063000007"
       [] d = 0 -> "1809480"]

\* dict.get: the geo_id of a district number, NULL (None) when unmapped.
DistrictGeoId(d) == IF d \in DOMAIN DISTRICT_GEO_IDS THEN DISTRICT_GEO_IDS[d] ELSE NULL

(***************************************************************************)
(* What the remote services serve.  A shapefile archive is a variant (is   *)
(* the .shp there, which attribute columns does it carry) of the feature   *)
(* rows of its layer.                                                      *)
(***************************************************************************)
Archives == { FixedShapefiles[i].archive : i \in DOMAIN FixedShapefiles }
              \cup { MissingShapefiles[i].archive : i \in DOMAIN MissingShapefiles }

Feat(g, m, s, c) == [GEOID |-> g, MTFCC |-> m, STATEFP |-> s, COUNTYFP |-> c]

\* Feature rows of each TIGER layer (a few representative features).
LayerRows(a) ==
  CASE a = "tl_us_county" -> << Feat("18105", "G4020", "18", "105"),
                                Feat("06037", "G4020", "06", "037"),
                                Feat("18097", "G4020", "18", "097"),
                                Feat("17105", "G4020", "17", "105") >>
    [] a = "tl_18_cousub" -> << Feat("1810505860", "G4040", "18", "105") >>
    [] a = "tl_06_cousub" -> << Feat("0603791750", "G4040", "06", "037") >>
    [] a = "tl_18_unsd"   -> << Feat("1800630", "G5420", "18", NULL),
                                Feat("1809480", "G5420", "18", NULL) >>
    [] a = "tl_06_unsd"   -> << Feat("0622710", "G5420", "06", NULL) >>
    [] a = "tl_18_sldu"   -> << Feat("18040", "G5210", "18", NULL) >>
    [] a = "tl_06_sldu"   -> << Feat("06024", "G5210", "06", NULL) >>
    [] a = "tl_18_sldl"   -> << Feat("18060", "G5220", "18", NULL),
                                Feat("18061", "G5220", "18", NULL) >>
    [] a = "tl_06_sldl"   -> << Feat("06051", "G5220", "06", NULL) >>
    [] a = "tl_06_place"  -> << Feat("0644000", "G4110", "06", NULL) >>
    [] a = "tl_18_cd119"  -> << Feat("1809", "G5200", "18", NULL) >>

\* The features read from an extracted archive of variant v.
ReadFile(a, v) == IF v = "norows" THEN << >> ELSE LayerRows(a)

\* Columns a well-formed archive of the layer carries.
LayerCols(a) ==
  IF a \in {"tl_us_county", "tl_18_cousub", "tl_06_cousub"}
  THEN {"GEOID", "MTFCC", "STATEFP", "COUNTYFP"}
  ELSE {"GEOID", "MTFCC", "STATEFP"}

\* Variants other than the regular one a remote archive may have, by
\* archive: a missing file or column, no rows, another coordinate reference.
BadVariants(a) ==
  CASE a = "tl_18_sldl"   -> {"noshp", "nomtfcc", "nogeoid", "nostatefp", "noprj"}
    [] a = "tl_us_county" -> {"nostatefp", "nocountyfp"}
    [] a = "tl_18_cd119"  -> {"noshp", "norows", "wgs84"}
    [] OTHER -> {}

\* Archives at whose fetch or load the environment may fail.
FaultyArchives == {"tl_us_county", "tl_18_sldl", "tl_18_cd119"}

HasShp(v) == v # "noshp"

Cols(a, v) ==
  CASE v = "nomtfcc"    -> LayerCols(a) \ {"MTFCC"}
    [] v = "nogeoid"    -> LayerCols(a) \ {"GEOID"}
    [] v = "nostatefp"  -> LayerCols(a) \ {"STATEFP"}
    [] v = "nocountyfp" -> LayerCols(a) \ {"COUNTYFP"}
    [] OTHER -> LayerCols(a)

(***************************************************************************)
(* GeoJSON feature batches the ArcGIS service may serve: sequences of      *)
(* District numbers.                                                       *)
(***************************************************************************)
Scenario9 == << 1, 2, 3, 4, 5, 6, 7, 0, 9 >>
Same8 == << 1, 2, 3, 4, 5, 6, 7, 0 >>
ShortDistricts == {1, 9}

RECURSIVE SeqsUpTo(_, _)
SeqsUpTo(S, n) ==
  IF n = 0 THEN { << >> }
  ELSE LET shorter == SeqsUpTo(S, n - 1)
       IN shorter \cup { Append(s, x) : s \in { t \in shorter : Len(t) = n - 1 }, x \in S }

\* A batch with no mapped feature makes an empty frame; left out.
FeatureBatches ==
  { Scenario9, Same8 } \cup
  { s \in SeqsUpTo(ShortDistricts, MaxFeat) :
      \E i \in DOMAIN s : DistrictGeoId(s[i]) # NULL }

(***************************************************************************)
(* Coordinate references.  A frame's geometries have a declared reference  *)
(* (crs), the reference their coordinates are expressed in (coords), and   *)
(* whether to_crs has transformed them.                                    *)
(***************************************************************************)
WGS84 == "EPSG:4326"
NAD83 == "EPSG:4269"

NoGeom == [crs |-> NULL, coords |-> NULL, reprojected |-> FALSE]

\* The reference the coordinates of an archive are expressed in.
ArchiveCoords(a, v) == IF v = "wgs84" THEN WGS84 ELSE NAD83

\* gpd.read_file: gdf.crs is the reference of the archive's .prj, None
\* when the archive has none.
ArchiveCrs(a, v) == IF v = "noprj" THEN NULL ELSE ArchiveCoords(a, v)

ReadGeom(a, v) ==
  [crs |-> ArchiveCrs(a, v), coords |-> ArchiveCoords(a, v), reprojected |-> FALSE]

\* Mutant: the reference is declared anew, the coordinates stay.
to_crs_relabel(g, target) == [g EXCEPT !.crs = target]

\* gdf.to_crs(target): coordinates transformed from the declared reference.
to_crs(g, target) == [crs |-> target, coords |-> target, reprojected |-> TRUE]

\* if gdf.crs != "EPSG:4326": gdf = gdf.to_crs("EPSG:4326")
Reproject(g) == IF g.crs # WGS84 THEN to_crs(g, WGS84) ELSE g

\* &f=geojson&outSR=4326 of ARCGIS_URL: the reference the service is asked
\* to answer in.
OutSR == WGS84

\* gpd.GeoDataFrame(rows, geometry="geometry", crs="EPSG:4326"): the
\* coordinates of the features are declared EPSG:4326 as they are.
GeoDataFrame(coords) == [crs |-> WGS84, coords |-> coords, reprojected |-> FALSE]

(***************************************************************************)
(* Filter / transform stage (pure).                                        *)
(***************************************************************************)
\* Mutant: the filter keeps the rows that differ from the target value.
FilterBy_negated(rows, cols, col, value) ==
  IF value # NULL /\ col \in cols
  THEN SelectSeq(rows, LAMBDA r : r[col] # value)
  ELSE rows

\* gdf[gdf[col] == value], applied only when a value is configured and
\* the column is present.
FilterBy(rows, cols, col, value) ==
  IF value # NULL /\ col \in cols
  THEN SelectSeq(rows, LAMBDA r : r[col] = value)
  ELSE rows

FilterRows(rows, cols, state_filter, county_filter) ==
  FilterBy(FilterBy(rows, cols, "STATEFP", state_filter), cols, "COUNTYFP", county_filter)

\* columns_map restricted to the available columns, plus the source tag.
ProjectRow(r, cols) ==
  [geo_id |-> IF "GEOID" \in cols THEN r.GEOID ELSE NULL,
   mtfcc  |-> IF "MTFCC" \in cols THEN r.MTFCC ELSE NULL,
   state  |-> IF "STATEFP" \in cols THEN r.STATEFP ELSE NULL,
   source |-> CensusSource]

CleanRows(rows, cols) == [i \in DOMAIN rows |-> ProjectRow(rows[i], cols)]

\* Mutant: the loop lacks the `continue` of an unmapped feature.
BoardRows_nocontinue(features) ==
  [i \in DOMAIN features |->
     [geo_id |-> DistrictGeoId(features[i]), mtfcc |-> SubDistrictMtfcc,
      state |-> "18", source |-> BoardSource]]

\* One destination row per mapped GeoJSON feature, in feature order.
RECURSIVE BoardRows(_)
BoardRows(features) ==
  IF features = << >> THEN << >>
  ELSE LET geo_id == DistrictGeoId(Head(features))
       IN IF geo_id = NULL
          THEN BoardRows(Tail(features))
          ELSE << [geo_id |-> geo_id, mtfcc |-> SubDistrictMtfcc,
                   state |-> "18", source |-> BoardSource] >>
               \o BoardRows(Tail(features))

\* One warning per feature without a mapping.
RECURSIVE BoardWarnings(_)
BoardWarnings(features) ==
  IF features = << >> THEN 0
  ELSE (IF DistrictGeoId(Head(features)) = NULL THEN 1 ELSE 0)
       + BoardWarnings(Tail(features))

(***************************************************************************)
(* essentials.geofence_boundaries: a bag of rows (row -> number of copies).*)
(***************************************************************************)
EmptyTable == [r \in {} |-> 0]

Copies(t, r) == IF r \in DOMAIN t THEN t[r] ELSE 0

AddRow(t, r) == [x \in DOMAIN t \cup {r} |-> Copies(t, x) + (IF x = r THEN 1 ELSE 0)]

RECURSIVE AddRows(_, _)
AddRows(t, rows) ==
  IF rows = << >> THEN t ELSE AddRows(AddRow(t, Head(rows)), Tail(rows))

RECURSIVE SumCopies(_, _)
SumCopies(t, S) ==
  IF S = {} THEN 0
  ELSE LET r == CHOOSE x \in S : TRUE IN t[r] + SumCopies(t, S \ {r})

\* SELECT COUNT(*) ... WHERE geo_id = g AND mtfcc = m
KeyCount(t, g, m) == SumCopies(t, { r \in DOMAIN t : r.geo_id = g /\ r.mtfcc = m })

RowCount(t) == SumCopies(t, DOMAIN t)

HasNull(r) == r.geo_id = NULL \/ r.mtfcc = NULL \/ r.state = NULL

AnyNull(rows) == \E i \in DOMAIN rows : HasNull(rows[i])

\* The unique constraint on (geo_id, mtfcc): appending rows would leave two
\* copies of one key.  A NULL in the key never collides.
UniqueViolation(t, rows) ==
  \E i \in DOMAIN rows :
     /\ rows[i].geo_id # NULL /\ rows[i].mtfcc # NULL
     /\ \/ KeyCount(t, rows[i].geo_id, rows[i].mtfcc) > 0
        \/ \E j \in DOMAIN rows :
              j # i /\ rows[j].geo_id = rows[i].geo_id /\ rows[j].mtfcc = rows[i].mtfcc

\* Mutant: the delete matches another feature-type code, so it removes
\* nothing of an earlier run.
DeleteSubDistricts_wrongcode(t, geo_ids) ==
  [r \in { x \in DOMAIN t : ~(x.geo_id \in geo_ids /\ x.mtfcc = "G5400") } |-> t[r]]

\* DELETE ... WHERE geo_id = ANY(:geo_ids) AND mtfcc = 'G5420'
DeleteSubDistricts(t, geo_ids) ==
  [r \in { x \in DOMAIN t : ~(x.geo_id \in geo_ids /\ x.mtfcc = SubDistrictMtfcc) } |-> t[r]]

\* Mutant: the connection is closed without a commit, and the statement
\* is rolled back.
conn_commit_missing(before, after) == before

\* conn.commit(): the table as the statements of the connection left it.
conn_commit(before, after) == after

\* Mutant: every error of the append is taken for a uniqueness violation.
IsDuplicateError_any(e) == e # "none"

\* The error text names a uniqueness violation:
\* "unique" in str(e).lower() or "duplicate" in str(e).lower()
IsDuplicateError(e) == e = "unique"

\* Mutant: the append reaches a table that enforces no key.
to_postgis_unchecked(t, rows) == [err |-> "none", table |-> AddRows(t, rows)]

\* gdf.to_postgis(..., if_exists='append'): one transaction appending
\* every row, or none when the unique constraint rejects one.
to_postgis(t, rows) ==
  IF UniqueViolation(t, rows)
  THEN [err |-> "unique", table |-> t]
  ELSE [err |-> "none", table |-> AddRows(t, rows)]

GeoIds(rows) == { rows[i].geo_id : i \in DOMAIN rows }

(***************************************************************************)
(* State.                                                                  *)
(***************************************************************************)
VARIABLES
  table,           \* essentials.geofence_boundaries
  zips,            \* WORK_DIR: archive -> variant downloaded, or NOFILE
  dirs,            \* WORK_DIR: archive -> variant extracted, or NOFILE
  geojson,         \* GEOJSON_PATH: is it there, and the feature batch in it
  script,          \* the script running (or last run)
  pc,              \* its position
  dbUrl,           \* DATABASE_URL is in os.environ
  idx,             \* position in SHAPEFILES
  sub,             \* position in [MONROE_IN, LA_CA] for the county layer
  gdf,             \* the frame after the filters
  batch,           \* gdf_clean / gdf handed to to_postgis
  geom,            \* coordinate reference of the frame's geometries
  rowIdx,          \* import_individually: row being inserted
  imported,        \* import_individually: imported
  skipped,         \* import_individually: skipped
  count,           \* value returned by the last import call
  deleted,         \* result.rowcount of the school-board delete
  err,             \* what the last bulk append raised, or "none"
  total_imported,
  warnings,        \* "WARNING: No geo_id mapping" lines printed
  log,             \* failure lines printed in this run
  netCalls,        \* requests.get calls issued in this run
  cacheWrites,     \* files or directories written in this run
  dbOps,           \* database statements issued in this run
  exitCode,        \* exit status of the finished run, or "none"
  cause,           \* what ended the run
  runs,
  faults

vars == << table, zips, dirs, geojson, script, pc, dbUrl, idx, sub, gdf, batch, geom,
           rowIdx, imported, skipped, count, deleted, err, total_imported,
           warnings, log, netCalls, cacheWrites, dbOps, exitCode, cause, runs, faults >>

cacheVars == << zips, dirs, geojson >>
loopVars == << idx, sub, gdf, batch, geom, rowIdx, imported, skipped, count, total_imported >>

ioVars == << netCalls, cacheWrites, dbOps >>

\* Rows a table may hold before the first run of the model.
SldlRowA == [geo_id |-> "18060", mtfcc |-> "G5220", state |-> "18", source |-> CensusSource]
InitialTables == { EmptyTable, AddRow(EmptyTable, SldlRowA) }

Init ==
  /\ table \in InitialTables
  /\ zips = [a \in Archives |-> NOFILE]
  /\ dirs = [a \in Archives |-> NOFILE]
  /\ geojson = [cached |-> FALSE, features |-> << >>]
  /\ script = "none"
  /\ pc = "idle"
  /\ dbUrl = FALSE
  /\ idx = 0 /\ sub = 0
  /\ gdf = << >> /\ batch = << >> /\ geom = NoGeom
  /\ rowIdx = 0 /\ imported = 0 /\ skipped = 0 /\ count = 0 /\ deleted = 0
  /\ err = "none"
  /\ total_imported = 0
  /\ warnings = 0
  /\ log = {}
  /\ netCalls = 0 /\ cacheWrites = 0 /\ dbOps = 0
  /\ exitCode = "none" /\ cause = "none"
  /\ runs = 0
  /\ faults = 0

Shapefiles(s) == IF s = "missing" THEN MissingShapefiles ELSE FixedShapefiles
Census == script \in {"missing", "fixed"}
CurKey == Shapefiles(script)[idx].key
CurArchive == Shapefiles(script)[idx].archive
CurCols == Cols(CurArchive, dirs[CurArchive])
CanFault == faults < MaxFaults
CanFaultHere == CanFault /\ CurArchive \in FaultyArchives

\* Mutant: the presence test of the destination is missing.
Exists_never(f) == FALSE

\* dest.exists() / extract_dir.exists() / GEOJSON_PATH.exists()
Exists(f) == f # NOFILE

\* A fresh process: every per-run value starts over.
Fresh(s, url) ==
  /\ pc \in {"idle", "exited"}
  /\ runs < MaxRuns
  /\ runs' = runs + 1
  /\ script' = s
  /\ dbUrl' = url
  /\ sub' = 0
  /\ gdf' = << >> /\ batch' = << >> /\ geom' = NoGeom
  /\ rowIdx' = 0 /\ imported' = 0 /\ skipped' = 0 /\ count' = 0 /\ deleted' = 0
  /\ err' = "none"
  /\ total_imported' = 0
  /\ warnings' = 0
  /\ log' = {}
  /\ netCalls' = 0 /\ cacheWrites' = 0

\* The process ends with the given status.
Exit(code, why) == pc' = "exited" /\ exitCode' = code /\ cause' = why

Running == exitCode' = "none" /\ cause' = "none"

(***************************************************************************)
(* Startup of each script: imports, load_env, engine, work directory.      *)
(***************************************************************************)
\* import_missing_geofences.main up to the dataset loop.
MissingStartup ==
  \E deps \in BOOLEAN, env \in BOOLEAN, file \in BOOLEAN :
    /\ Fresh("missing", deps /\ (env \/ file))
    /\ UNCHANGED << table, cacheVars >>
    /\ IF ~deps
       THEN Exit(1, "dependency") /\ dbOps' = 0 /\ idx' = 0 /\ UNCHANGED faults
       ELSE IF ~(env \/ file)
       THEN Exit(1, "config") /\ dbOps' = 0 /\ idx' = 0 /\ UNCHANGED faults
       ELSE \/ /\ pc' = "download" /\ Running
               /\ dbOps' = 1 /\ idx' = 1 /\ UNCHANGED faults
            \/ /\ CanFault /\ faults' = faults + 1
               /\ Exit(1, "db_connect") /\ dbOps' = 1 /\ idx' = 0

\* import_shapefiles_fixed.main up to the dataset loop: the connection
\* string is not looked at here.
FixedStartup ==
  \E deps \in BOOLEAN, env \in BOOLEAN :
    /\ Fresh("fixed", env)
    /\ UNCHANGED << table, cacheVars, faults >>
    /\ dbOps' = 0
    /\ IF ~deps
       THEN Exit(1, "dependency") /\ idx' = 0
       ELSE pc' = "download" /\ Running /\ idx' = 1

\* import_school_board_districts.main up to download_geojson.
BoardStartup ==
  \E deps \in BOOLEAN, env \in BOOLEAN, file \in BOOLEAN :
    /\ Fresh("board", deps /\ (env \/ file))
    /\ UNCHANGED << table, cacheVars, faults >>
    /\ dbOps' = 0 /\ idx' = 0
    /\ IF ~deps
       THEN Exit(1, "dependency")
       ELSE IF ~(env \/ file)
       THEN Exit(1, "config")
       ELSE pc' = "download" /\ Running

(***************************************************************************)
(* Fetcher and extractor of the Census scripts.                            *)
(***************************************************************************)
\* download_file(url, dest)
download_file ==
  /\ Census /\ pc = "download"
  /\ UNCHANGED << table, dirs, geojson, script, dbUrl, deleted, err, loopVars, warnings, log,
                  dbOps, runs >>
  /\ LET a == CurArchive IN
     IF Exists(zips[a])
     THEN /\ pc' = "extract"
          /\ UNCHANGED << zips, netCalls, cacheWrites, exitCode, cause, faults >>
     ELSE /\ netCalls' = netCalls + 1
          /\ \/ \E v \in {"ok"} \cup (IF CanFaultHere THEN BadVariants(a) ELSE {}) :
                  /\ zips' = [zips EXCEPT ![a] = v]
                  /\ cacheWrites' = cacheWrites + 1
                  /\ faults' = IF v = "ok" THEN faults ELSE faults + 1
                  /\ pc' = "extract"
                  /\ UNCHANGED << exitCode, cause >>
             \/ /\ CanFaultHere /\ faults' = faults + 1
                /\ Exit(1, "network")
                /\ \/ UNCHANGED << zips, cacheWrites >>
                   \/ /\ zips' = [zips EXCEPT ![a] = "partial"]
                      /\ cacheWrites' = cacheWrites + 1

\* extract_shapefile(zip_path, extract_dir)
extract_shapefile ==
  /\ Census /\ pc = "extract"
  /\ UNCHANGED << table, zips, geojson, script, dbUrl, deleted, err, loopVars, warnings, log,
                  netCalls, dbOps, runs, faults >>
  /\ LET a == CurArchive IN
     IF Exists(dirs[a])
     THEN pc' = "glob" /\ UNCHANGED << dirs, cacheWrites, exitCode, cause >>
     ELSE IF zips[a] = "partial"
     THEN Exit(1, "bad_zip") /\ UNCHANGED << dirs, cacheWrites >>
     ELSE /\ dirs' = [dirs EXCEPT ![a] = zips[a]]
          /\ cacheWrites' = cacheWrites + 1
          /\ pc' = "glob"
          /\ UNCHANGED << exitCode, cause >>

(***************************************************************************)
(* The dataset loop of the Census scripts.                                 *)
(***************************************************************************)
\* The loop moves to the next SHAPEFILES entry, or leaves the loop.
NextDataset ==
  /\ sub' = 0 /\ gdf' = << >> /\ batch' = << >> /\ geom' = NoGeom
  /\ IF idx < Len(Shapefiles(script))
     THEN idx' = idx + 1 /\ pc' = "download"
     ELSE idx' = 0 /\ pc' = "summary"

\* count = import...(...); total_imported += count
Returned(c) ==
  /\ count' = c
  /\ total_imported' = total_imported + c
  /\ IF script = "fixed" /\ CurKey = "county" /\ sub < Len(CountyTargets)
     THEN sub' = sub + 1 /\ idx' = idx /\ pc' = "load" /\ gdf' = << >> /\ batch' = << >> /\ geom' = NoGeom
     ELSE NextDataset

\* shp_files = list(extract_dir.glob("*.shp")); if not shp_files: continue
FindShp ==
  /\ Census /\ pc = "glob"
  /\ UNCHANGED << table, cacheVars, script, dbUrl, deleted, err, rowIdx, imported, skipped, count,
                  total_imported, warnings, ioVars, exitCode, cause, runs, faults >>
  /\ IF ~HasShp(dirs[CurArchive])
     THEN log' = log \cup { << "no_shp", CurKey >> } /\ NextDataset
     ELSE /\ pc' = "load" /\ idx' = idx
          /\ sub' = IF script = "fixed" /\ CurKey = "county" THEN 1 ELSE 0
          /\ UNCHANGED << log, gdf, batch, geom >>

\* Keys of SHAPEFILES by the substring main() tests.
InKeys == {"cousub_in", "unsd_in", "sldu_in", "sldl_in"}
CaKeys == {"cousub_ca", "unsd_ca", "sldu_ca", "sldl_ca", "place_ca"}

\* The filters main() of import_shapefiles_fixed passes for the current call.
FixedStateFilter ==
  IF CurKey = "county" THEN CountyTargets[sub].state
  ELSE IF CurKey \in InKeys THEN MONROE_IN.state
  ELSE LA_CA.state

FixedCountyFilter == IF CurKey = "county" THEN CountyTargets[sub].county ELSE NULL

\* The database may refuse a row that lacks a column (NOT NULL), and any
\* statement may fail for a reason of the environment.
OtherError(rows) ==
  \/ CanFaultHere /\ faults' = faults + 1
  \/ AnyNull(rows) /\ UNCHANGED faults

\* import_to_postgis up to the append: read, filter, rename, print.
MissingLoad ==
  /\ script = "missing" /\ pc = "load"
  /\ UNCHANGED << table, cacheVars, script, dbUrl, deleted, err, rowIdx, imported, skipped,
                  warnings, ioVars, runs, faults >>
  /\ LET cols == CurCols
         rows == FilterRows(ReadFile(CurArchive, dirs[CurArchive]), cols,
                            MissingShapefiles[idx].state_filter, NULL)
     IN IF Len(rows) = 0
        THEN /\ log' = log \cup { << "no_match", CurKey >> }
             /\ Returned(0)
             /\ UNCHANGED << exitCode, cause >>
        ELSE IF ReadGeom(CurArchive, dirs[CurArchive]).crs = NULL
        THEN /\ Exit(1, "naive_crs")
             /\ UNCHANGED << idx, sub, gdf, batch, geom, count, total_imported, log >>
        ELSE IF "MTFCC" \notin cols \/ "GEOID" \notin cols
        THEN /\ Exit(1, "key_error")
             /\ UNCHANGED << idx, sub, gdf, batch, geom, count, total_imported, log >>
        ELSE /\ gdf' = rows
             /\ geom' = Reproject(ReadGeom(CurArchive, dirs[CurArchive]))
             /\ batch' = CleanRows(rows, cols)
             /\ pc' = "append"
             /\ UNCHANGED << idx, sub, count, total_imported, log, exitCode, cause >>

\* import_to_postgis: except Exception as e: a uniqueness violation goes to
\* import_individually, any other error prints "Import failed" and returns 0.
MissingExcept(e) ==
  IF IsDuplicateError(e)
  THEN /\ pc' = "individual"
       /\ rowIdx' = 1 /\ imported' = 0 /\ skipped' = 0
       /\ UNCHANGED << idx, sub, gdf, batch, geom, count, total_imported, log >>
  ELSE /\ log' = log \cup { << "import_failed", CurKey >> }
       /\ Returned(0)
       /\ UNCHANGED << rowIdx, imported, skipped >>

\* import_to_postgis: the bulk append and its except clause.
MissingAppend ==
  /\ script = "missing" /\ pc = "append"
  /\ UNCHANGED << cacheVars, script, dbUrl, deleted, warnings, netCalls, cacheWrites,
                  exitCode, cause, runs >>
  /\ dbOps' = dbOps + 1
  /\ LET res == to_postgis(table, batch) IN
     \/ /\ OtherError(batch)
        /\ err' = "other"
        /\ MissingExcept("other")
        /\ UNCHANGED table
     \/ /\ res.err # "none"
        /\ err' = res.err
        /\ MissingExcept(res.err)
        /\ UNCHANGED << table, faults >>
     \/ /\ res.err = "none"
        /\ err' = "none"
        /\ table' = res.table
        /\ Returned(Len(batch))
        /\ UNCHANGED << rowIdx, imported, skipped, log, faults >>

\* import_individually: one iteration of the loop.
InsertRow ==
  /\ script = "missing" /\ pc = "individual" /\ rowIdx <= Len(batch)
  /\ UNCHANGED << cacheVars, script, pc, dbUrl, deleted, err, idx, sub, gdf, batch, geom, count,
                  total_imported, warnings, log, netCalls, cacheWrites, exitCode,
                  cause, runs >>
  /\ dbOps' = dbOps + 1
  /\ rowIdx' = rowIdx + 1
  /\ LET res == to_postgis(table, << batch[rowIdx] >>) IN
     \/ /\ OtherError(<< batch[rowIdx] >>)
        /\ skipped' = skipped + 1
        /\ UNCHANGED << table, imported >>
     \/ /\ res.err # "none"
        /\ skipped' = skipped + 1
        /\ UNCHANGED << table, imported, faults >>
     \/ /\ res.err = "none"
        /\ table' = res.table
        /\ imported' = imported + 1
        /\ UNCHANGED << skipped, faults >>

\* import_individually: return imported
InsertDone ==
  /\ script = "missing" /\ pc = "individual" /\ rowIdx > Len(batch)
  /\ UNCHANGED << table, cacheVars, script, dbUrl, deleted, err, rowIdx, imported, skipped,
                  warnings, log, ioVars, exitCode, cause, runs, faults >>
  /\ Returned(imported)

\* import_shapefile_to_postgis up to the append: read, filter, rename,
\* get_db_engine.
FixedLoad ==
  /\ script = "fixed" /\ pc = "load"
  /\ UNCHANGED << table, cacheVars, script, dbUrl, deleted, err, rowIdx, imported, skipped,
                  warnings, ioVars, runs, faults >>
  /\ LET cols == CurCols
         rows == FilterRows(ReadFile(CurArchive, dirs[CurArchive]), cols,
                            FixedStateFilter, FixedCountyFilter)
     IN IF Len(rows) = 0
        THEN /\ log' = log \cup { << "no_match", CurKey >> }
             /\ Returned(0)
             /\ UNCHANGED << exitCode, cause >>
        ELSE IF ReadGeom(CurArchive, dirs[CurArchive]).crs = NULL
        THEN /\ Exit(1, "naive_crs")
             /\ UNCHANGED << idx, sub, gdf, batch, geom, count, total_imported, log >>
        ELSE IF ~dbUrl
        THEN /\ Exit(1, "config")
             /\ UNCHANGED << idx, sub, gdf, batch, geom, count, total_imported, log >>
        ELSE /\ gdf' = rows
             /\ geom' = Reproject(ReadGeom(CurArchive, dirs[CurArchive]))
             /\ batch' = CleanRows(rows, cols)
             /\ pc' = "append"
             /\ UNCHANGED << idx, sub, count, total_imported, log, exitCode, cause >>

\* Mutant: the exception of the append is not caught.
ImportFailed_raise ==
  /\ Exit(1, "import_failed")
  /\ UNCHANGED << idx, sub, gdf, batch, geom, count, total_imported, log >>

\* except Exception as e: print("Import failed"); return 0
ImportFailed ==
  /\ log' = log \cup { << "import_failed", CurKey >> }
  /\ Returned(0)
  /\ UNCHANGED << exitCode, cause >>

\* import_shapefile_to_postgis: the bulk append; any exception returns 0.
FixedAppend ==
  /\ script = "fixed" /\ pc = "append"
  /\ UNCHANGED << cacheVars, script, dbUrl, deleted, rowIdx, imported, skipped, warnings,
                  netCalls, cacheWrites, runs >>
  /\ dbOps' = dbOps + 1
  /\ LET res == to_postgis(table, batch) IN
     \/ /\ OtherError(batch)
        /\ err' = "other"
        /\ ImportFailed
        /\ UNCHANGED table
     \/ /\ res.err # "none"
        /\ err' = res.err
        /\ ImportFailed
        /\ UNCHANGED << table, faults >>
     \/ /\ res.err = "none"
        /\ err' = "none"
        /\ table' = res.table
        /\ Returned(Len(batch))
        /\ UNCHANGED << log, faults, exitCode, cause >>

\* import_missing_geofences.main after the loop: the summary query.
MissingSummary ==
  /\ script = "missing" /\ pc = "summary"
  /\ UNCHANGED << table, cacheVars, script, dbUrl, deleted, err, loopVars, warnings, log,
                  netCalls, cacheWrites, runs >>
  /\ dbOps' = dbOps + 1
  /\ \/ Exit(0, "none") /\ UNCHANGED faults
     \/ CanFault /\ faults' = faults + 1 /\ Exit(1, "db_summary")

\* import_shapefiles_fixed.main after the loop: get_db_engine, then the
\* summary query inside try/except.
FixedSummary ==
  /\ script = "fixed" /\ pc = "summary"
  /\ UNCHANGED << table, cacheVars, script, dbUrl, deleted, err, loopVars, warnings,
                  netCalls, cacheWrites, runs >>
  /\ IF ~dbUrl
     THEN Exit(1, "config") /\ UNCHANGED << dbOps, log, faults >>
     ELSE /\ dbOps' = dbOps + 1
          /\ Exit(0, "none")
          /\ \/ UNCHANGED << log, faults >>
             \/ /\ CanFault /\ faults' = faults + 1
                /\ log' = log \cup { << "summary_failed", "summary" >> }

(***************************************************************************)
(* import_school_board_districts.py                                        *)
(***************************************************************************)
\* download_geojson()
download_geojson ==
  /\ script = "board" /\ pc = "download"
  /\ UNCHANGED << table, zips, dirs, script, dbUrl, deleted, err, loopVars, warnings, log,
                  dbOps, runs >>
  /\ IF Exists(IF geojson.cached THEN "cached" ELSE NOFILE)
     THEN /\ pc' = "build"
          /\ UNCHANGED << geojson, netCalls, cacheWrites, exitCode, cause, faults >>
     ELSE /\ netCalls' = netCalls + 1
          /\ \/ \E f \in FeatureBatches :
                  /\ geojson' = [cached |-> TRUE, features |-> f]
                  /\ cacheWrites' = cacheWrites + 1
                  /\ pc' = "build"
                  /\ UNCHANGED << exitCode, cause, faults >>
             \/ /\ CanFault /\ faults' = faults + 1
                /\ Exit(1, "network")
                /\ UNCHANGED << geojson, cacheWrites >>

\* import_districts: the feature loop and the GeoDataFrame.
BuildRows ==
  /\ script = "board" /\ pc = "build"
  /\ UNCHANGED << table, cacheVars, script, dbUrl, deleted, err, idx, sub, gdf, rowIdx, imported,
                  skipped, count, total_imported, log, ioVars, exitCode, cause,
                  runs, faults >>
  /\ batch' = BoardRows(geojson.features)
  /\ geom' = GeoDataFrame(OutSR)
  /\ warnings' = BoardWarnings(geojson.features)
  /\ pc' = "delete"

\* import_districts: DELETE ... ; conn.commit()
DeleteExisting ==
  /\ script = "board" /\ pc = "delete"
  /\ UNCHANGED << cacheVars, script, dbUrl, err, loopVars, warnings, log, netCalls,
                  cacheWrites, runs >>
  /\ dbOps' = dbOps + 1
  /\ \/ /\ table' = conn_commit(table, DeleteSubDistricts(table, GeoIds(batch)))
        /\ deleted' = RowCount(table) - RowCount(DeleteSubDistricts(table, GeoIds(batch)))
        /\ pc' = "insert"
        /\ UNCHANGED << exitCode, cause, faults >>
     \/ /\ CanFault /\ faults' = faults + 1
        /\ Exit(1, "db_delete")
        /\ UNCHANGED << table, deleted >>

\* import_districts: gdf.to_postgis(...), not inside any try.
InsertDistricts ==
  /\ script = "board" /\ pc = "insert"
  /\ UNCHANGED << cacheVars, script, dbUrl, deleted, idx, sub, gdf, batch, geom, rowIdx, imported,
                  skipped, total_imported, warnings, log, netCalls, cacheWrites, runs >>
  /\ dbOps' = dbOps + 1
  /\ LET res == to_postgis(table, batch) IN
     \/ /\ CanFault /\ faults' = faults + 1
        /\ err' = "other"
        /\ Exit(1, "board_insert")
        /\ UNCHANGED << table, count >>
     \/ /\ res.err # "none"
        /\ err' = res.err
        /\ Exit(1, "board_insert")
        /\ UNCHANGED << table, count, faults >>
     \/ /\ res.err = "none"
        /\ err' = "none"
        /\ table' = res.table
        /\ count' = Len(batch)
        /\ pc' = "verify"
        /\ UNCHANGED << exitCode, cause, faults >>

\* verify(engine) and the end of main: diagnostic only.
Verify ==
  /\ script = "board" /\ pc = "verify"
  /\ UNCHANGED << table, cacheVars, script, dbUrl, deleted, err, loopVars, warnings, log,
                  netCalls, cacheWrites, runs >>
  /\ dbOps' = dbOps + 1
  /\ \/ Exit(0, "none") /\ UNCHANGED faults
     \/ CanFault /\ faults' = faults + 1 /\ Exit(1, "db_verify")

Next ==
  \/ MissingStartup \/ FixedStartup \/ BoardStartup
  \/ download_file \/ extract_shapefile \/ FindShp
  \/ MissingLoad \/ MissingAppend \/ InsertRow \/ InsertDone \/ MissingSummary
  \/ FixedLoad \/ FixedAppend \/ FixedSummary
  \/ download_geojson \/ BuildRows \/ DeleteExisting \/ InsertDistricts \/ Verify

Spec == Init /\ [][Next]_vars

(***************************************************************************)
(* Properties.                                                             *)
(***************************************************************************)
Exited == pc = "exited"
Completed == pc = "exited" /\ exitCode = 0

\* The state filter main() configured for the current import call.
StateFilter ==
  IF script = "missing" THEN MissingShapefiles[idx].state_filter ELSE FixedStateFilter
CountyFilter == IF script = "missing" THEN NULL ELSE FixedCountyFilter

\* The (GEOID, MTFCC) pairs of the Census layers.
CensusPairs ==
  UNION { { << LayerRows(a)[i].GEOID, LayerRows(a)[i].MTFCC >> : i \in DOMAIN LayerRows(a) }
          : a \in Archives }

SubDistrictGeoIds == { DISTRICT_GEO_IDS[d] : d \in DOMAIN DISTRICT_GEO_IDS }

SubDistrictRows(t) ==
  SumCopies(t, { r \in DOMAIN t : r.geo_id \in SubDistrictGeoIds /\ r.mtfcc = SubDistrictMtfcc })

\* C2: a school-board import of the 8 districts finds no row of its keys
\* left when it inserts, and once completed leaves exactly 8 G5420 rows
\* for the 8 geo_ids, one each, whatever the table held before.
C2_NoAccumulation ==
  (script = "board" /\ geojson.features = Same8) =>
     /\ pc = "insert" => SubDistrictRows(table) = 0
     /\ Completed =>
          /\ SubDistrictRows(table) = 8
          /\ \A g \in SubDistrictGeoIds : KeyCount(table, g, SubDistrictMtfcc) = 1

\* A re-import that deleted the 8 rows of an earlier run and wrote 8 again.
C2_Witness ==
  /\ script = "board" /\ geojson.features = Same8 /\ Completed
  /\ deleted = 8 /\ count = 8
  /\ SubDistrictRows(table) = 8

\* What ends a process by an exception nothing catches.
UncaughtCauses ==
  { "network", "bad_zip", "naive_crs", "key_error", "db_connect", "db_summary",
    "db_delete", "board_insert", "db_verify" }

\* C3 as stated: once started, the process exits zero whatever fails later.
C3_AlwaysZeroOnceStarted ==
  (Exited /\ cause \notin {"config", "dependency"}) => exitCode = 0

\* C3 amended: a finished process has status 1 exactly when the connection
\* string or a dependency was missing or an exception escaped main();
\* failures the Census loaders log (no .shp, a failed append, a row skipped)
\* never end the process.
C3_ExitStatus ==
  /\ Exited =>
       /\ exitCode \in {0, 1}
       /\ exitCode = 1 <=> cause \in UncaughtCauses \cup {"config", "dependency"}
       /\ exitCode = 0 <=> cause = "none"
  /\ ~Exited => exitCode = "none" /\ cause = "none"

\* A run that logged a failed append and a run that ended zero all the same.
C3_Witness ==
  /\ Completed /\ script = "fixed"
  /\ \E e \in log : e[1] = "import_failed"

\* C4 as stated: no step of any script removes or changes a Census row.
C4_CensusRowsKept ==
  [][ \A r \in DOMAIN table :
        r.source = CensusSource => Copies(table', r) >= table[r] ]_vars

\* C5 as stated: a uniqueness violation of the bulk append of a Census
\* loader leads to the per-row fallback over the batch.
C5_Fallback ==
  [][ ( /\ Census /\ pc = "append"
        /\ UniqueViolation(table, batch)
        /\ ~AnyNull(batch) /\ faults' = faults )
      => ( pc' = "individual" /\ rowIdx' = 1 /\ batch' = batch ) ]_vars

\* C5 as stated, its last sentence: the fallback has tried every row once,
\* and every key of the batch is in the table after it.
C5_KeysPresent ==
  (pc = "individual" /\ rowIdx > Len(batch)) =>
     /\ imported + skipped = Len(batch)
     /\ \A i \in DOMAIN batch :
          KeyCount(table, batch[i].geo_id, batch[i].mtfcc) >= 1

\* C6: a fetch or extract step whose destination exists issues no request
\* and writes nothing.
C6_CachedSkip ==
  [][ ( \/ Census /\ pc = "download" /\ zips[CurArchive] # NOFILE
        \/ Census /\ pc = "extract" /\ dirs[CurArchive] # NOFILE
        \/ script = "board" /\ pc = "download" /\ geojson.cached )
      => ( /\ netCalls' = netCalls
           /\ cacheWrites' = cacheWrites
           /\ UNCHANGED cacheVars
           /\ exitCode' = "none" ) ]_vars

\* A later run has passed the fetch of a cached archive without a request.
C6_Witness ==
  /\ Census /\ runs = 2 /\ pc = "glob" /\ idx = 1
  /\ netCalls = 0 /\ cacheWrites = 0
  /\ zips[CurArchive] # NOFILE /\ dirs[CurArchive] # NOFILE

MappedFeatures(f) == { i \in DOMAIN f : f[i] \in DOMAIN DISTRICT_GEO_IDS }
UnmappedFeatures(f) == { i \in DOMAIN f : f[i] \notin DOMAIN DISTRICT_GEO_IDS }
BoardTableRows(t) == SumCopies(t, { r \in DOMAIN t : r.source = BoardSource })

InputRows == ReadFile(CurArchive, dirs[CurArchive])

Retained(r) == \E i \in DOMAIN gdf : gdf[i] = r

\* C8: of the rows read, exactly those reach the loader that carry the
\* target value in each dimension that has a target and a column; a
\* dimension whose column is absent filters nothing.
C8_Filter ==
  (Census /\ pc = "append") =>
     LET byState == StateFilter # NULL /\ "STATEFP" \in CurCols
         byCounty == CountyFilter # NULL /\ "COUNTYFP" \in CurCols
     IN /\ byState => \A i \in DOMAIN gdf : gdf[i].STATEFP = StateFilter
        /\ byCounty => \A i \in DOMAIN gdf : gdf[i].COUNTYFP = CountyFilter
        /\ \A i \in DOMAIN gdf : \E j \in DOMAIN InputRows : InputRows[j] = gdf[i]
        /\ \A j \in DOMAIN InputRows :
             ( /\ byState => InputRows[j].STATEFP = StateFilter
               /\ byCounty => InputRows[j].COUNTYFP = CountyFilter )
             => Retained(InputRows[j])
        /\ (~byState /\ ~byCounty) => gdf = InputRows
        /\ Len(batch) = Len(gdf)

\* The county layer filtered down to Monroe County out of four counties.
C8_Witness ==
  /\ script = "fixed" /\ pc = "append" /\ CurKey = "county" /\ sub = 1
  /\ "STATEFP" \in CurCols /\ "COUNTYFP" \in CurCols
  /\ Len(InputRows) = 4 /\ Len(gdf) = 1 /\ gdf[1].GEOID = "18105"

\* C9 as stated: a process that ends for want of the connection string has
\* issued no request, written nothing to the cache, and touched no table.
C9_ConfigAbortsFirst ==
  (Exited /\ cause = "config") =>
     netCalls = 0 /\ cacheWrites = 0 /\ dbOps = 0

\* A dataset with a parse/format error: no .shp in the extracted archive,
\* or a frame without the MTFCC or GEOID column.
ParseError ==
  /\ Census
  /\ \/ pc = "glob" /\ ~HasShp(dirs[CurArchive])
     \/ pc = "load" /\ ("MTFCC" \notin CurCols \/ "GEOID" \notin CurCols)

\* C10 as stated: a dataset with a parse/format error is skipped, the
\* table keeps its rows, and the run goes on to the next dataset or the
\* summary.
C10_SkipAndContinue ==
  [][ ParseError =>
        ( /\ pc' \in {"download", "summary"}
          /\ table' = table
          /\ exitCode' = "none" ) ]_vars

\* C11: when the bulk append of a Census loader fails for a reason other
\* than a uniqueness violation, the table keeps its rows, the call returns
\* 0, the running total stays as it was, and the run goes on without
\* ending: to the next dataset, to the second target of the county layer,
\* or to the summary after the last dataset.
C11_AbandonAndContinue ==
  [][ ( Census /\ pc = "append" /\ err' = "other" ) =>
        ( /\ table' = table
          /\ count' = 0
          /\ total_imported' = total_imported
          /\ exitCode' = "none"
          /\ << "import_failed", CurKey >> \in log'
          /\ pc' \in {"download", "load", "summary"}
          /\ pc' = "download" => idx' = idx + 1
          /\ pc' = "load" =>
               script = "fixed" /\ CurKey = "county" /\ idx' = idx /\ sub' = sub + 1
          /\ pc' = "summary" => idx = Len(Shapefiles(script)) ) ]_vars

\* A run of import_missing_geofences whose first batch was abandoned went
\* on to import the second dataset and ended normally.
C11_Witness ==
  /\ script = "missing" /\ Completed
  /\ << "import_failed", "sldl_in" >> \in log
  /\ total_imported = 1
  /\ KeyCount(table, "18061", "G5220") = 0
  /\ KeyCount(table, "1809", "G5200") = 1

\* The batch is at the loader: the append (or its per-row fallback) of a
\* Census script, the insert of the school-board import.
HandedToLoader ==
  \/ Census /\ pc \in {"append", "individual"}
  \/ script = "board" /\ pc = "insert"

\* The declared coordinate reference of the input the batch was made from.
InputCrs == IF Census THEN ArchiveCrs(CurArchive, dirs[CurArchive]) ELSE OutSR

InDeleteSet(r) == r.geo_id \in GeoIds(batch) /\ r.mtfcc = SubDistrictMtfcc

\* C13: the delete of the school-board import removes every row whose
\* geo_id is in the batch and whose mtfcc is G5420 and leaves every other
\* row as it was, and the table is so when the insert is tried; an insert
\* that fails ends the run with the table as the delete left it, holding
\* no G5420 row, old or new, for the geo_ids of the batch.
C13_DeleteCommitted ==
  [][ /\ ( script = "board" /\ pc = "delete" /\ pc' = "insert" ) =>
           /\ \A r \in DOMAIN table \cup DOMAIN table' :
                Copies(table', r) = IF InDeleteSet(r) THEN 0 ELSE Copies(table, r)
           /\ deleted' = SumCopies(table, { r \in DOMAIN table : InDeleteSet(r) })
      /\ ( script = "board" /\ pc = "insert" /\ pc' = "exited" ) =>
           /\ cause' = "board_insert" /\ exitCode' = 1
           /\ table' = table
           /\ \A g \in GeoIds(batch) : KeyCount(table', g, SubDistrictMtfcc) = 0 ]_vars

\* A re-import deleted the 8 rows of an earlier import, its insert failed,
\* and the run ended with none of the 16 rows in the table.
C13_Witness ==
  /\ script = "board" /\ Exited /\ cause = "board_insert"
  /\ geojson.features = Same8
  /\ deleted = 8
  /\ SubDistrictRows(table) = 0

====
